---------------------------- MODULE Spec2Model ----------------------------
(***************************************************************************)
(* EveRes (src/app.py): a Flask application that stores events, resources  *)
(* and allocations of resources to events in MongoDB collections, rejects  *)
(* an allocation that overlaps an existing one of the same resource, and   *)
(* reports per-resource utilisation.                                       *)
(*                                                                         *)
(* Instants are integers (seconds).  A collection is the sequence of its   *)
(* documents in insertion order; a document's _id is its position.         *)
(* One client (one Flask session) sends the requests.                      *)
(*                                                                         *)
(* Spec     : every request handler runs from start to end alone.          *)
(* ConcSpec : allocate requests run in worker threads; the reads and the   *)
(*            insert of one request interleave with the other requests.    *)
(***************************************************************************)
EXTENDS Integers, Sequences, FiniteSets, TLC

VARIABLES
    users,        \* users_col: sequence of [username, password]
    events,       \* events_col: sequence of [title, start, end]
    resources,    \* resources_col: sequence of [name, type]
    allocations,  \* allocations_col: sequence of [event_id, resource_id]
    session,      \* the client's Flask session: NoUser or a username
    now,          \* what datetime.now() returns
    req,          \* the last request, as far as its handler read it
    resp,         \* the response to it
    workers       \* ConcSpec: the allocate requests in flight, one per thread

vars == <<users, events, resources, allocations, session, now, req, resp, workers>>
store == <<users, events, resources, allocations>>

-----------------------------------------------------------------------------
(* Bounds of the model *)

\* the documents the events, resources and allocations collections hold together
MaxDocuments == 5
\* of them, the events and the resources: the rest is room for allocations
MaxEvents == MaxDocuments - 2
MaxResources == MaxDocuments - 3
\* the allocate requests in flight together
MaxWorkers == 2

(* The forms a client posts.  3600 s = 1 h, 90000 s = 25 h. *)

\* /events: title, start, end
EventForms ==
    { <<"standup", 0, 3600>>, <<"", 3600, 90000>>, <<"offsite", 0, 90000>>,
      <<"standup", 3600, 3600>>, <<"standup", 3600, 0>> }
\* /resources: name
ResourceForms == {"", "room"}
\* /report: start, end
ReportForms == { <<0, 3600>>, <<3600, 90000>>, <<0, 90000>> }
\* /register: username, password, confirm
RegisterForms ==
    { <<"ann", "pw", "pw">>, <<" ann ", "pw", "pw">>, <<"", "pw", "pw">>,
      <<"ann", "", "">>, <<"ann", "pw", "">> }
\* /login: username, password
LoginForms == { <<"ann", "pw">>, <<"ann", "">>, <<" ann ", "pw">> }
\* what datetime.now() shows
ClockInstants == {0, 3600}

-----------------------------------------------------------------------------
(* Program constants *)

\* timedelta.seconds is the seconds within the day: 0 <= seconds < 86400
SecondsPerDay == 86400
\* ".limit(5)"
UpcomingLimit == 5
\* an ObjectId, well formed, that names no stored document
NoSuchId == 0

NoUser == "<none>"
GET == "GET"
POST == "POST"

-----------------------------------------------------------------------------
(* Requests and responses *)

Request(op, method, a, b, s, t, u) ==
    [op |-> op, method |-> method, a |-> a, b |-> b, s |-> s, t |-> t, u |-> u]

\* clock: the datetime.now() the handler read, -1 when it read none
Response(body) ==
    [body |-> body, rows |-> <<>>, counts |-> <<>>, upcoming |-> <<>>, clock |-> -1]

RedirectLogin == "redirect:/login"
RedirectHome == "redirect:/home"
InvalidTimeRange == "Invalid time range"
ConflictBody == "Conflict: Resource already booked"
\* an exception leaves the handler: Flask answers 500
ServerError == "500 Internal Server Error"

-----------------------------------------------------------------------------
(* Helpers of the libraries the handlers call *)

\* str.strip()
Strip(username) == IF username = " ann " THEN "ann" ELSE username

\* werkzeug generate_password_hash / check_password_hash
GeneratePasswordHash(password) == <<"pbkdf2", password>>
CheckPasswordHash(hash, password) == hash = <<"pbkdf2", password>>

\* collection.find_one({"username": username}) is not None
\* a lookup that finds no one
FindUser_None(us, username) == {}

FindUser(us, username) == {i \in DOMAIN us : us[i].username = username}

\* collection.find_one({"_id": id}) is not None
Stored(col, id) == id \in DOMAIN col

\* timedelta.seconds of the difference end - start of two datetimes: the
\* seconds of the normalised timedelta, without its days
TimedeltaSeconds(start, end) == (end - start) % SecondsPerDay

-----------------------------------------------------------------------------
(* Conflict detection: has_conflict, lines 130-135 *)

\* a check that only asks whether the new start falls into a booked interval
has_conflict_StartInside(allocs, evs, resource_id, start, end) ==
    \E i \in DOMAIN allocs :
        /\ allocs[i].resource_id = resource_id
        /\ LET event == evs[allocs[i].event_id]
           IN  event.start <= start /\ start < event.end

\* a check whose comparisons are strict: touching intervals conflict
has_conflict_Closed(allocs, evs, resource_id, start, end) ==
    \E i \in DOMAIN allocs :
        /\ allocs[i].resource_id = resource_id
        /\ LET event == evs[allocs[i].event_id]
           IN  ~(end < event.start \/ start > event.end)

\* a check that only asks whether the new end falls into a booked interval
has_conflict_EndInside(allocs, evs, resource_id, start, end) ==
    \E i \in DOMAIN allocs :
        /\ allocs[i].resource_id = resource_id
        /\ LET event == evs[allocs[i].event_id]
           IN  event.start < end /\ end <= event.end

\* a check that reads the allocations of every resource
has_conflict_AnyResource(allocs, evs, resource_id, start, end) ==
    \E i \in DOMAIN allocs :
        LET event == evs[allocs[i].event_id]
        IN  ~(end <= event.start \/ start >= event.end)

\* a check that takes any allocation of the resource for a conflict
has_conflict_AnyEvent(allocs, evs, resource_id, start, end) ==
    \E i \in DOMAIN allocs : allocs[i].resource_id = resource_id

has_conflict(allocs, evs, resource_id, start, end) ==
    \E i \in DOMAIN allocs :
        /\ allocs[i].resource_id = resource_id
        /\ LET event == evs[allocs[i].event_id]
           IN  ~(end <= event.start \/ start >= event.end)

-----------------------------------------------------------------------------
(* Report: the loops of lines 168-179.  hours is kept as the number of     *)
(* seconds whose 3600th part the code adds up (seconds = 3600 * hours).    *)

\* line 174: the event intersects the window
InWindow(event, start, end) == event.end > start /\ event.start < end

\* an event counts as upcoming from the instant it starts
IsUpcoming_NotStrict(event, clock) == event.start >= clock

\* line 176: event["start"] > datetime.now()
IsUpcoming(event, clock) == event.start > clock

RECURSIVE ReportRow(_, _, _, _, _, _, _)
ReportRow(allocs, evs, rid, start, end, clock, i) ==
    IF i = 0 THEN [seconds |-> 0, upcoming |-> 0]
    ELSE LET rest == ReportRow(allocs, evs, rid, start, end, clock, i - 1)
             a == allocs[i]
             event == evs[a.event_id]
         IN  IF a.resource_id # rid THEN rest
             ELSE [seconds |->
                       IF InWindow(event, start, end)
                       THEN rest.seconds + TimedeltaSeconds(event.start, event.end)
                       ELSE rest.seconds,
                   upcoming |->
                       IF IsUpcoming(event, clock)
                       THEN rest.upcoming + 1
                       ELSE rest.upcoming]

\* a report that takes the current instant for the start of the window
ReportData_FromNow(ress, allocs, evs, start, end, clock) ==
    [r \in DOMAIN ress |->
        LET row == ReportRow(allocs, evs, r, clock, end, clock, Len(allocs))
        IN  [name |-> ress[r].name, seconds |-> row.seconds,
             upcoming |-> row.upcoming]]

ReportData(ress, allocs, evs, start, end, clock) ==
    [r \in DOMAIN ress |->
        LET row == ReportRow(allocs, evs, r, start, end, clock, Len(allocs))
        IN  [name |-> ress[r].name, seconds |-> row.seconds,
             upcoming |-> row.upcoming]]

-----------------------------------------------------------------------------
(* Dashboard: events_col.find({"start": {"$gt": now}}).sort("start", 1)    *)
(* .limit(5), line 87.  Events of equal start come in either order.        *)

Min(x, y) == IF x <= y THEN x ELSE y

\* a filter that takes $gte for $gt
UpcomingIds_NotStrict(evs, clock) == {e \in DOMAIN evs : evs[e].start >= clock}

\* find({"start": {"$gt": now}})
UpcomingIds(evs, clock) == {e \in DOMAIN evs : evs[e].start > clock}

\* .sort("start", 1): every order of ids that puts no later start first
RECURSIVE SortedByStart(_, _)
SortedByStart(evs, ids) ==
    IF ids = {}
    THEN {<<>>}
    ELSE UNION { { <<e>> \o q : q \in SortedByStart(evs, ids \ {e}) } :
                 e \in {x \in ids : \A y \in ids : evs[x].start <= evs[y].start} }

\* .limit(n)
Limit(q, n) == SubSeq(q, 1, Min(n, Len(q)))

UpcomingLists(evs, clock) ==
    { Limit(q, UpcomingLimit) : q \in SortedByStart(evs, UpcomingIds(evs, clock)) }

-----------------------------------------------------------------------------
(* The state after construction: empty collections, no session. *)

Init ==
    /\ users = <<>>
    /\ events = <<>>
    /\ resources = <<>>
    /\ allocations = <<>>
    /\ session = NoUser
    /\ now = 0
    /\ req = Request("start", GET, 0, 0, "", "", "")
    /\ resp = Response("")
    /\ workers = <<>>

\* the collections have room for one more document
Room == Len(events) + Len(resources) + Len(allocations) < MaxDocuments

\* a handler without the decorator
LoggedIn_Undecorated == TRUE

\* login_required, lines 22-28: "user" in session
LoggedIn == session # NoUser

\* login_required returns before the handler reads the form
Unread(request) == Request(request.op, request.method, 0, 0, "", "", "")

\* what a request leaves alone besides the collections it writes
Answer(request, response) ==
    /\ req' = request
    /\ resp' = response
    /\ UNCHANGED <<now, workers>>

-----------------------------------------------------------------------------
(* Authentication, lines 31-77 *)

Register(method, username, password, confirm) ==
    LET request == Request("register", method, 0, 0, username, password, confirm)
        name == Strip(username)
    IN  /\ UNCHANGED <<events, resources, allocations, session>>
        /\ IF method = POST
           THEN IF name = "" \/ password = ""
                THEN /\ Answer(request, Response("Username and password are required"))
                     /\ UNCHANGED users
                ELSE IF password # confirm
                THEN /\ Answer(request, Response("Passwords do not match"))
                     /\ UNCHANGED users
                ELSE IF FindUser(users, name) # {}
                THEN /\ Answer(request, Response("Username already taken"))
                     /\ UNCHANGED users
                ELSE /\ users' = Append(users,
                            [username |-> name,
                             password |-> GeneratePasswordHash(password)])
                     /\ Answer(request, Response(RedirectLogin))
           ELSE /\ Answer(request, Response("register.html"))
                /\ UNCHANGED users

Login(method, username, password) ==
    LET request == Request("login", method, 0, 0, username, password, "")
        found == FindUser(users, username)
    IN  /\ UNCHANGED store
        /\ IF method = POST
           THEN IF \E i \in found : CheckPasswordHash(users[i].password, password)
                THEN /\ session' = username
                     /\ Answer(request, Response(RedirectHome))
                ELSE /\ Answer(request, Response("Invalid username or password"))
                     /\ UNCHANGED session
           ELSE /\ Answer(request, Response("login.html"))
                /\ UNCHANGED session

Logout ==
    /\ session' = NoUser
    /\ Answer(Request("logout", GET, 0, 0, "", "", ""), Response(RedirectLogin))
    /\ UNCHANGED store

Index ==
    /\ Answer(Request("index", GET, 0, 0, "", "", ""),
              IF LoggedIn THEN Response(RedirectHome) ELSE Response("index.html"))
    /\ UNCHANGED <<store, session>>

-----------------------------------------------------------------------------
(* Dashboard, lines 79-94 *)

Home ==
    LET request == Request("home", GET, 0, 0, "", "", "")
    IN  /\ UNCHANGED <<store, session>>
        /\ IF ~LoggedIn
           THEN Answer(Unread(request), Response(RedirectLogin))
           ELSE \E upcoming \in UpcomingLists(events, now) :
                    Answer(request,
                           [body |-> "home.html", rows |-> <<>>,
                            counts |-> <<Len(events), Len(resources), Len(allocations)>>,
                            upcoming |-> upcoming, clock |-> now])

-----------------------------------------------------------------------------
(* Events, lines 97-114 *)

\* a check that lets an empty range through
InvalidRange_EmptyAllowed(start, end) == start > end

\* a handler without the check of line 103
InvalidRange_Unchecked(start, end) == FALSE

\* line 103: start >= end
InvalidRange(start, end) == start >= end

Events(method, title, start, end) ==
    LET request == Request("events", method, start, end, title, "", "")
    IN  /\ UNCHANGED <<users, resources, allocations, session>>
        /\ IF ~LoggedIn
           THEN /\ Answer(Unread(request), Response(RedirectLogin))
                /\ UNCHANGED events
           ELSE IF method = POST
           THEN IF InvalidRange(start, end)
                THEN /\ Answer(request, Response(InvalidTimeRange))
                     /\ UNCHANGED events
                ELSE /\ Room /\ Len(events) < MaxEvents
                     /\ events' = Append(events,
                            [title |-> title, start |-> start, end |-> end])
                     /\ Answer(request, Response("events.html"))
           ELSE /\ Answer(request, Response("events.html"))
                /\ UNCHANGED events

-----------------------------------------------------------------------------
(* Resources, lines 117-127 *)

Resources(method, name) ==
    LET request == Request("resources", method, 0, 0, name, "", "")
    IN  /\ UNCHANGED <<users, events, allocations, session>>
        /\ IF ~LoggedIn
           THEN /\ Answer(Unread(request), Response(RedirectLogin))
                /\ UNCHANGED resources
           ELSE IF method = POST
           THEN /\ Room /\ Len(resources) < MaxResources
                /\ resources' = Append(resources, [name |-> name])
                /\ Answer(request, Response("resources.html"))
           ELSE /\ Answer(request, Response("resources.html"))
                /\ UNCHANGED resources

-----------------------------------------------------------------------------
(* Allocate, lines 138-156 *)

\* an allocate that rebooks: it updates the resource's allocation, if it has
\* one, in place of inserting another
Allocate_Rebook(method, event_id, resource_id) ==
    LET request == Request("allocate", method, event_id, resource_id, "", "", "")
        held == {i \in DOMAIN allocations : allocations[i].resource_id = resource_id}
    IN  /\ UNCHANGED <<users, events, resources, session>>
        /\ IF ~LoggedIn
           THEN /\ Answer(Unread(request), Response(RedirectLogin))
                /\ UNCHANGED allocations
           ELSE IF method = POST
           THEN IF ~Stored(events, event_id)
                THEN /\ Answer(request, Response(ServerError))
                     /\ UNCHANGED allocations
                ELSE IF has_conflict(allocations, events, resource_id,
                                     events[event_id].start, events[event_id].end)
                THEN /\ Answer(request, Response(ConflictBody))
                     /\ UNCHANGED allocations
                ELSE /\ Room
                     /\ allocations' =
                           IF held = {}
                           THEN Append(allocations,
                                    [event_id |-> event_id, resource_id |-> resource_id])
                           ELSE [allocations EXCEPT
                                    ![CHOOSE i \in held : TRUE].event_id = event_id]
                     /\ Answer(request, Response("allocate.html"))
           ELSE /\ Answer(request, Response("allocate.html"))
                /\ UNCHANGED allocations

Allocate(method, event_id, resource_id) ==
    LET request == Request("allocate", method, event_id, resource_id, "", "", "")
    IN  /\ UNCHANGED <<users, events, resources, session>>
        /\ IF ~LoggedIn
           THEN /\ Answer(Unread(request), Response(RedirectLogin))
                /\ UNCHANGED allocations
           ELSE IF method = POST
           THEN IF ~Stored(events, event_id)
                \* event is None: event["start"] raises TypeError
                THEN /\ Answer(request, Response(ServerError))
                     /\ UNCHANGED allocations
                ELSE IF has_conflict(allocations, events, resource_id,
                                     events[event_id].start, events[event_id].end)
                THEN /\ Answer(request, Response(ConflictBody))
                     /\ UNCHANGED allocations
                ELSE /\ Room
                     /\ allocations' = Append(allocations,
                            [event_id |-> event_id, resource_id |-> resource_id])
                     /\ Answer(request, Response("allocate.html"))
           ELSE /\ Answer(request, Response("allocate.html"))
                /\ UNCHANGED allocations

-----------------------------------------------------------------------------
(* Report, lines 159-181 *)

\* a report that kept the insert of the events handler, whose parsing of
\* start and end it repeats
Report_CopiedInsert(method, start, end) ==
    LET request == Request("report", method, start, end, "", "", "")
    IN  /\ UNCHANGED <<users, resources, allocations, session>>
        /\ IF ~LoggedIn
           THEN /\ Answer(Unread(request), Response(RedirectLogin))
                /\ UNCHANGED events
           ELSE IF method = POST
           THEN /\ Room
                /\ events' = Append(events,
                       [title |-> "", start |-> start, end |-> end])
                /\ Answer(request,
                       [body |-> "report.html",
                        rows |-> ReportData(resources, allocations, events,
                                            start, end, now),
                        counts |-> <<>>, upcoming |-> <<>>, clock |-> now])
           ELSE /\ Answer(request, Response("report.html"))
                /\ UNCHANGED events

Report(method, start, end) ==
    LET request == Request("report", method, start, end, "", "", "")
    IN  /\ UNCHANGED <<store, session>>
        /\ IF ~LoggedIn
           THEN Answer(Unread(request), Response(RedirectLogin))
           ELSE IF method = POST
           THEN Answer(request,
                       [body |-> "report.html",
                        rows |-> ReportData(resources, allocations, events,
                                            start, end, now),
                        counts |-> <<>>, upcoming |-> <<>>, clock |-> now])
           ELSE Answer(request, Response("report.html"))

-----------------------------------------------------------------------------
(* datetime.now() moves on between requests *)

Tick ==
    /\ \E t \in ClockInstants : t > now /\ now' = t
    /\ UNCHANGED <<store, session, req, resp, workers>>

-----------------------------------------------------------------------------
(* The ids a form can carry: a stored document's, or one of no document *)

EventIds == DOMAIN events \cup {NoSuchId}
ResourceIds == DOMAIN resources \cup {NoSuchId}

Next ==
    \/ Register(GET, "", "", "")
    \/ \E f \in RegisterForms : Register(POST, f[1], f[2], f[3])
    \/ Login(GET, "", "")
    \/ \E f \in LoginForms : Login(POST, f[1], f[2])
    \/ Logout
    \/ Index
    \/ Home
    \/ Events(GET, "", 0, 0)
    \/ \E f \in EventForms : Events(POST, f[1], f[2], f[3])
    \/ Resources(GET, "")
    \/ \E n \in ResourceForms : Resources(POST, n)
    \/ Allocate(GET, NoSuchId, NoSuchId)
    \/ \E e \in EventIds, r \in ResourceIds : Allocate(POST, e, r)
    \/ Report(GET, 0, 0)
    \/ \E f \in ReportForms : Report(POST, f[1], f[2])
    \/ Tick

Spec == Init /\ [][Next]_vars

-----------------------------------------------------------------------------
(* Allocate requests in worker threads (app.run serves each request in a   *)
(* thread of its own).  One request is three steps: it reads the session   *)
(* and the event (lines 25, 145-146), it runs has_conflict (line 148), it  *)
(* inserts (lines 151-154).  Other requests' steps come between them.      *)

Worker(pc, event_id, resource_id, outcome) ==
    [pc |-> pc, event_id |-> event_id, resource_id |-> resource_id,
     outcome |-> outcome]

\* a start that goes on to the insert when find_one returned no event
AllocateStart_NoLookup(event_id, resource_id) ==
    /\ Len(workers) < MaxWorkers
    /\ workers' = Append(workers,
           IF ~LoggedIn
           THEN Worker("done", event_id, resource_id, RedirectLogin)
           ELSE IF ~Stored(events, event_id)
           THEN Worker("insert", event_id, resource_id, "")
           ELSE Worker("check", event_id, resource_id, ""))
    /\ UNCHANGED <<store, session, now, req, resp>>

AllocateStart(event_id, resource_id) ==
    /\ Len(workers) < MaxWorkers
    /\ workers' = Append(workers,
           IF ~LoggedIn
           THEN Worker("done", event_id, resource_id, RedirectLogin)
           ELSE IF ~Stored(events, event_id)
           THEN Worker("done", event_id, resource_id, ServerError)
           ELSE Worker("check", event_id, resource_id, ""))
    /\ UNCHANGED <<store, session, now, req, resp>>

AllocateCheck(w) ==
    /\ workers[w].pc = "check"
    /\ LET event == events[workers[w].event_id]
       IN  workers' = [workers EXCEPT ![w] =
               IF has_conflict(allocations, events, @.resource_id,
                               event.start, event.end)
               THEN Worker("done", @.event_id, @.resource_id, ConflictBody)
               ELSE Worker("insert", @.event_id, @.resource_id, "")]
    /\ UNCHANGED <<store, session, now, req, resp>>

AllocateInsert(w) ==
    /\ workers[w].pc = "insert"
    /\ Room
    /\ allocations' = Append(allocations,
           [event_id |-> workers[w].event_id,
            resource_id |-> workers[w].resource_id])
    /\ workers' = [workers EXCEPT ![w] =
           Worker("done", @.event_id, @.resource_id, "allocate.html")]
    /\ UNCHANGED <<users, events, resources, session, now, req, resp>>

\* the forms posted while allocate requests are in flight
ConcEventForms == { <<"standup", 0, 3600>>, <<"offsite", 0, 90000>> }

ConcNext ==
    \/ Register(POST, "ann", "pw", "pw")
    \/ Login(POST, "ann", "pw")
    \/ \E f \in ConcEventForms : Events(POST, f[1], f[2], f[3])
    \/ Resources(POST, "room")
    \/ Report(POST, 0, 90000)
    \/ \E e \in EventIds, r \in ResourceIds : AllocateStart(e, r)
    \/ \E w \in DOMAIN workers : AllocateCheck(w)
    \/ \E w \in DOMAIN workers : AllocateInsert(w)

ConcSpec == Init /\ [][ConcNext]_vars

-----------------------------------------------------------------------------
(* What the properties speak of *)

\* two intervals [s1,e1) and [s2,e2) overlap
Overlap(s1, e1, s2, e2) == s1 < e2 /\ s2 < e1

\* the event of the i-th allocation
EventOf(i) == events[allocations[i].event_id]

\* resource id r has an allocation whose event overlaps event e
Booked(r, e) ==
    \E i \in DOMAIN allocations :
        /\ allocations[i].resource_id = r
        /\ Overlap(events[e].start, events[e].end, EventOf(i).start, EventOf(i).end)

\* the allocate request of event e to resource r, as the client sends it
AllocateRequest(e, r) == Request("allocate", POST, e, r, "", "", "")
ReportRequest(f) == Request("report", POST, f[1], f[2], "", "", "")

-----------------------------------------------------------------------------
\* C1: with requests handled one at a time, no two distinct allocations of
\* the same resource_id have events whose intervals overlap
\* (s1 < e2 and s2 < e1), in every reachable state.
C1_NoOverlap ==
    \A i, j \in DOMAIN allocations :
        (i # j /\ allocations[i].resource_id = allocations[j].resource_id)
            => ~Overlap(EventOf(i).start, EventOf(i).end,
                        EventOf(j).start, EventOf(j).end)

\* a stored resource holds two allocations, of two events
C1_Witness ==
    \E i, j \in DOMAIN allocations :
        /\ i < j
        /\ allocations[i].resource_id = allocations[j].resource_id
        /\ allocations[i].resource_id \in DOMAIN resources
        /\ allocations[i].event_id # allocations[j].event_id

\* C2: of the allocate requests in flight together for one resource whose
\* events overlap one another, at most one inserts an allocation, and the
\* allocations of a resource never overlap, in every interleaving of the
\* requests' check and insert steps.
C2_AllocationAtomicity ==
    /\ \A v, w \in DOMAIN workers :
           ( /\ v # w
             /\ workers[v].outcome = "allocate.html"
             /\ workers[w].outcome = "allocate.html"
             /\ workers[v].resource_id = workers[w].resource_id )
           => ~Overlap(events[workers[v].event_id].start,
                       events[workers[v].event_id].end,
                       events[workers[w].event_id].start,
                       events[workers[w].event_id].end)
    /\ \A i, j \in DOMAIN allocations :
           (i < j /\ allocations[i].resource_id = allocations[j].resource_id)
               => ~Overlap(EventOf(i).start, EventOf(i).end,
                           EventOf(j).start, EventOf(j).end)

\* C3: an allocate request of a stored event E to a resource id that has an
\* allocation whose event overlaps E is answered with the conflict message
\* and leaves the allocations as they were.
C3_RejectionOnOverlap ==
    [][req'.op = "allocate" =>
          \A e \in DOMAIN events, r \in ResourceIds :
              (req' = AllocateRequest(e, r) /\ Allocate(POST, e, r)
                  /\ LoggedIn /\ Booked(r, e))
                  => (resp'.body = ConflictBody /\ allocations' = allocations)]_vars

\* a request for a stored resource was answered with the conflict message
C3_Witness ==
    /\ req.op = "allocate"
    /\ req.b \in DOMAIN resources
    /\ resp.body = ConflictBody
    /\ Len(allocations) > 0

\* resource id r has no allocation but of events that touch event e
OnlyTouching(r, e) ==
    \A i \in DOMAIN allocations :
        allocations[i].resource_id = r
            => \/ EventOf(i).end = events[e].start
               \/ events[e].end = EventOf(i).start

\* C4: for events E1 and E2 with E1.end = E2.start and a resource R without
\* other allocations, allocate(E1, R) and allocate(E2, R) both succeed, in
\* either order, and both allocations are stored: an allocate of a stored
\* event to a resource id that has no allocation, or only allocations of
\* events touching it, is answered with the page and appends the allocation.
C4_TouchingAllowed ==
    [][req'.op = "allocate" =>
          \A e \in DOMAIN events, r \in ResourceIds :
              (req' = AllocateRequest(e, r) /\ Allocate(POST, e, r)
                  /\ LoggedIn /\ OnlyTouching(r, e))
                  => /\ resp'.body = "allocate.html"
                     /\ allocations' = Append(allocations,
                            [event_id |-> e, resource_id |-> r])]_vars

\* a stored resource holds the later of two touching events first
C4_Witness ==
    \E i, j \in DOMAIN allocations :
        /\ i < j
        /\ allocations[i].resource_id = allocations[j].resource_id
        /\ allocations[i].resource_id \in DOMAIN resources
        /\ EventOf(j).end = EventOf(i).start
        /\ req = AllocateRequest(allocations[j].event_id, allocations[j].resource_id)
        /\ resp.body = "allocate.html"

\* C5: every stored allocation references a stored event and a stored
\* resource (an allocate request naming a missing event or resource creates
\* no allocation).
C5_ReferencesExist ==
    \A i \in DOMAIN allocations :
        /\ allocations[i].event_id \in DOMAIN events
        /\ allocations[i].resource_id \in DOMAIN resources

RECURSIVE SumDurations(_, _, _, _)
SumDurations(r, ws, we, n) ==
    IF n = 0 THEN 0
    ELSE SumDurations(r, ws, we, n - 1)
         + (IF /\ allocations[n].resource_id = r
               /\ EventOf(n).end > ws
               /\ EventOf(n).start < we
            THEN EventOf(n).end - EventOf(n).start
            ELSE 0)

\* C7: a report's bookedHours of a resource, times 3600, is the sum of
\* end - start over the resource's allocations whose event intersects the
\* window, for events of every length.
C7_BookedHours ==
    (req.op = "report" /\ req.method = POST /\ resp.body = "report.html")
        => \A r \in DOMAIN resources :
               resp.rows[r].seconds = SumDurations(r, req.a, req.b, Len(allocations))

\* the allocations of resource r whose event starts after instant t
UpcomingCount(r, t) ==
    Cardinality({i \in DOMAIN allocations :
                    allocations[i].resource_id = r /\ EventOf(i).start > t})

\* C8: a report's upcomingCount of a resource is the number of the
\* resource's allocations whose event starts strictly after the current
\* instant, whatever the window: two reports at one instant on one store
\* give the same upcomingCount.
C8_UpcomingCount ==
    [][\A f \in ReportForms :
          (req' = ReportRequest(f) /\ Report(POST, f[1], f[2]) /\ LoggedIn)
              => \A r \in DOMAIN resources :
                     resp'.rows[r].upcoming = UpcomingCount(r, now)]_vars

\* a report counted an upcoming allocation that its window leaves out
C8_Witness ==
    /\ req.op = "report"
    /\ resp.body = "report.html"
    /\ \E r \in DOMAIN resp.rows :
           resp.rows[r].upcoming = 1 /\ resp.rows[r].seconds = 0

\* C9 as claimed: a report(a, b) that follows a report(a, b) with nothing
\* requested in between gives the same rows, bookedHours and upcomingCount,
\* also when the current instant has advanced.
C9_IdempotentReporting ==
    [][\A f \in ReportForms :
          ( /\ req = ReportRequest(f)
            /\ req' = req
            /\ resp.body = "report.html"
            /\ Report(POST, f[1], f[2]) )
              => resp'.rows = resp.rows]_vars

\* C9 amended: two reports(a, b) with no allocation and no resource created
\* between them give the same rows with the same bookedHours, and the same
\* upcomingCount when the current instant is the same at both.
\* (First conjunct: the second of two reports in a row.  Second conjunct: a
\* step between them that writes events only leaves what a report answers,
\* for every window and instant, as it was.)
C9_IdempotentAtOneInstant ==
    [][ /\ \A f \in ReportForms :
              ( /\ req = ReportRequest(f)
                /\ req' = req
                /\ resp.body = "report.html"
                /\ Report(POST, f[1], f[2]) )
                  => /\ DOMAIN resp'.rows = DOMAIN resp.rows
                     /\ \A r \in DOMAIN resp.rows :
                            /\ resp'.rows[r].name = resp.rows[r].name
                            /\ resp'.rows[r].seconds = resp.rows[r].seconds
                     /\ (resp'.clock = resp.clock => resp'.rows = resp.rows)
        /\ (events' # events /\ allocations' = allocations /\ resources' = resources)
              => \A f \in ReportForms, t \in ClockInstants :
                     ReportData(resources', allocations', events', f[1], f[2], t)
                         = ReportData(resources, allocations, events, f[1], f[2], t)
      ]_vars

\* a report was answered, and since then the clock passed the start of an
\* allocated event of a stored resource
C9_Witness ==
    /\ req.op = "report"
    /\ resp.body = "report.html"
    /\ resp.clock < now
    /\ \E i \in DOMAIN allocations :
           /\ allocations[i].resource_id \in DOMAIN resources
           /\ resp.clock < EventOf(i).start
           /\ EventOf(i).start <= now

\* C10: a report request and a home request leave the users, events,
\* resources and allocations as they were.
C10_PureReads ==
    [][ ( /\ req'.op \in {"home", "report"}
          /\ \/ Home
             \/ Report(GET, 0, 0)
             \/ \E f \in ReportForms : Report(POST, f[1], f[2]) )
            => UNCHANGED <<users, events, resources, allocations>> ]_vars

\* the dashboard was shown over a store that holds allocations
C10_Witness ==
    /\ req.op = "home"
    /\ resp.body = "home.html"
    /\ resp.counts[3] > 0

-----------------------------------------------------------------------------
\* the handlers behind login_required
Gated == {"home", "events", "resources", "allocate", "report"}

\* C11: a request to home, events, resources, allocate or report made while
\* the session holds no user writes nothing, answers no data and redirects
\* to login; the session gets a user only by a login whose username and
\* password match a stored user, and loses it only by a logout.
C11_AccessGating ==
    [][ /\ (session = NoUser /\ req'.op \in Gated)
              => /\ UNCHANGED <<users, events, resources, allocations, session>>
                 /\ resp'.body = RedirectLogin
                 /\ resp'.rows = <<>> /\ resp'.counts = <<>> /\ resp'.upcoming = <<>>
        /\ (session' # session /\ session' # NoUser)
              => /\ req' = Request("login", POST, 0, 0, session', req'.t, "")
                 /\ \E i \in DOMAIN users :
                        /\ users[i].username = session'
                        /\ users[i].password = GeneratePasswordHash(req'.t)
        /\ (session' # session /\ session' = NoUser) => req'.op = "logout"
      ]_vars

\* after a logout, an event form was posted to a store that holds events
C11_Witness ==
    /\ session = NoUser
    /\ req.op = "events"
    /\ req.method = POST
    /\ resp.body = RedirectLogin
    /\ Len(events) > 0

\* C12: no stored event has an empty title (a schedule-event request whose
\* title is empty creates no event, also when start < end).
C12_TitleRequired ==
    \A e \in DOMAIN events : events[e].title # ""

\* C13: no stored resource has an empty name (a register-resource request
\* whose name is empty creates no resource).
C13_NameRequired ==
    \A r \in DOMAIN resources : resources[r].name # ""

-----------------------------------------------------------------------------
(* The dashboard over a store of more upcoming events than it lists: the   *)
(* store after one registration, one login and UpcomingLimit + 1 accepted  *)
(* event forms, with or without a resource and an allocation of the first  *)
(* event to it.                                                            *)

DashStarts == {0, 3600, 7200}

DashEvents ==
    { [title |-> "standup", start |-> s, end |-> s + 3600] : s \in DashStarts }

DashInit ==
    /\ users = <<[username |-> "ann", password |-> GeneratePasswordHash("pw")]>>
    /\ session = "ann"
    /\ events \in [1..(UpcomingLimit + 1) -> DashEvents]
    /\ \E n \in 0..2 :
          /\ resources = [i \in 1..Min(n, 1) |-> [name |-> "room"]]
          /\ allocations = [i \in 1..(n - Min(n, 1)) |->
                                [event_id |-> 1, resource_id |-> 1]]
    /\ now = 0
    /\ req = Request("start", GET, 0, 0, "", "", "")
    /\ resp = Response("")
    /\ workers = <<>>

DashNext == Home \/ Tick

DashSpec == DashInit /\ [][DashNext]_vars

\* C14: the dashboard answers the exact numbers of stored events, resources
\* and allocations, and a list of events that all start strictly after the
\* instant of the request, in ascending order of start, of at most 5
\* entries, omitting no event that starts after that instant and earlier
\* than a listed one.
C14_Dashboard ==
    (req.op = "home" /\ resp.body = "home.html") =>
        LET listed == resp.upcoming
        IN  /\ resp.counts = <<Len(events), Len(resources), Len(allocations)>>
            /\ Len(listed) <= 5
            /\ \A i \in DOMAIN listed :
                  /\ listed[i] \in DOMAIN events
                  /\ events[listed[i]].start > resp.clock
            /\ \A i, j \in DOMAIN listed :
                  i < j => /\ listed[i] # listed[j]
                           /\ events[listed[i]].start <= events[listed[j]].start
            /\ \A e \in DOMAIN events :
                  (events[e].start > resp.clock
                      /\ \A i \in DOMAIN listed : listed[i] # e)
                  => /\ Len(listed) = 5
                     /\ \A i \in DOMAIN listed :
                           events[listed[i]].start <= events[e].start

\* a dashboard that left one upcoming event out, of events of two different
\* starts stored out of order, after one resource and one allocation
C14_Witness ==
    /\ req.op = "home"
    /\ resp.body = "home.html"
    /\ Len(resp.upcoming) = 5
    /\ resp.counts = <<6, 1, 1>>
    /\ \E e \in DOMAIN events :
          /\ events[e].start > resp.clock
          /\ \A i \in DOMAIN resp.upcoming : resp.upcoming[i] # e
    /\ events[1].start > events[2].start

-----------------------------------------------------------------------------
\* the instants has_conflict is asked about
ProbeInstants == {0, 3600, 90000}

\* the allocations of resource id r, in their order
AllocationsOf(r) ==
    LET OfResource(a) == a.resource_id = r
    IN  SelectSeq(allocations, OfResource)

\* C15: has_conflict(resource_id, start, end) is true exactly when some
\* stored allocation with that resource_id references an event with
\* start < event.end and event.start < end; it is false for a resource
\* without allocations, and it answers the same on the allocations of that
\* resource alone, whatever the other resources hold.
C15_ConflictIff ==
    \A r \in ResourceIds, s \in ProbeInstants, e \in ProbeInstants :
        /\ has_conflict(allocations, events, r, s, e)
              <=> \E i \in DOMAIN allocations :
                      /\ allocations[i].resource_id = r
                      /\ s < EventOf(i).end
                      /\ EventOf(i).start < e
        /\ AllocationsOf(r) = <<>> => ~has_conflict(allocations, events, r, s, e)
        /\ has_conflict(allocations, events, r, s, e)
              <=> has_conflict(AllocationsOf(r), events, r, s, e)

\* two resource ids hold allocations, and the check has just answered true
\* for one of them
C15_Witness ==
    /\ \E i, j \in DOMAIN allocations :
          allocations[i].resource_id # allocations[j].resource_id
    /\ req.op = "allocate"
    /\ req.method = POST
    /\ resp.body = ConflictBody
    /\ has_conflict(allocations, events, req.b,
                    events[req.a].start, events[req.a].end)

-----------------------------------------------------------------------------
\* every document of collection col is a document of col', unaltered
Kept(col, colNext) ==
    \A i \in DOMAIN col : i \in DOMAIN colNext /\ colNext[i] = col[i]

\* C16: across every step, each event, resource and allocation stored
\* before the step is stored after it with the same attributes; no step
\* updates or deletes a stored document.
C16_StoreOnlyGrows ==
    [][ /\ Kept(events, events')
        /\ Kept(resources, resources')
        /\ Kept(allocations, allocations') ]_vars

\* an allocation was just added to a store that held two events, a
\* resource and an allocation of that resource
C16_Witness ==
    /\ req.op = "allocate"
    /\ resp.body = "allocate.html"
    /\ Len(events) >= 2
    /\ Len(resources) >= 1
    /\ Len(allocations) >= 2
    /\ allocations[1].resource_id = allocations[2].resource_id

-----------------------------------------------------------------------------
\* C17: in every reachable state, under any interleaving of event
\* creations, reports and the check and insert steps of allocate requests,
\* every stored allocation's event_id names a stored event, and so does the
\* event_id of every request that is between its lookup and its insert: the
\* lookups of has_conflict and of report find their event.
C17_AllocationEventStored ==
    /\ \A i \in DOMAIN allocations : Stored(events, allocations[i].event_id)
    /\ \A w \in DOMAIN workers :
          workers[w].pc \in {"check", "insert"}
              => Stored(events, workers[w].event_id)

\* a request for an event id that names no event has ended, another has
\* inserted its allocation and a report has read it
C17_Witness ==
    /\ \E w \in DOMAIN workers :
          /\ workers[w].event_id = NoSuchId
          /\ workers[w].outcome = ServerError
    /\ \E w \in DOMAIN workers : workers[w].outcome = "allocate.html"
    /\ Len(allocations) >= 1
    /\ req.op = "report"
    /\ resp.body = "report.html"

-----------------------------------------------------------------------------
\* C18: an allocate of a stored event E to a resource id R that has no
\* allocation of an event overlapping E is answered with the page and
\* stores exactly one new allocation (E, R), whatever allocations E and
\* other events have on other resources; one event can be allocated to
\* several resources.
C18_NoFalseConflict ==
    [][req'.op = "allocate" =>
          \A e \in DOMAIN events, r \in ResourceIds :
              (req' = AllocateRequest(e, r) /\ Allocate(POST, e, r)
                  /\ LoggedIn /\ ~Booked(r, e))
                  => /\ resp'.body = "allocate.html"
                     /\ allocations' = Append(allocations,
                            [event_id |-> e, resource_id |-> r])]_vars

\* one event was allocated to a second stored resource
C18_Witness ==
    /\ req.op = "allocate"
    /\ resp.body = "allocate.html"
    /\ \E i \in DOMAIN allocations :
          /\ i < Len(allocations)
          /\ allocations[i].event_id = req.a
          /\ allocations[i].resource_id # req.b
          /\ allocations[i].resource_id \in DOMAIN resources
    /\ req.b \in DOMAIN resources
    /\ allocations[Len(allocations)] = [event_id |-> req.a, resource_id |-> req.b]

-----------------------------------------------------------------------------
-----------------------------------------------------------------------------
\* the register request of form f, as the client sends it
RegisterRequest(f) == Request("register", POST, 0, 0, f[1], f[2], f[3])

\* C20: with register requests handled one at a time, no two stored users
\* have the same username; a register request with an empty username or
\* password, with a confirmation that differs from the password, or with a
\* username that is stored already (as typed or without its outer blanks)
\* leaves the users as they were.
C20_UsernameUnique ==
    [][ /\ \A i, j \in DOMAIN users' :
              users'[i].username = users'[j].username => i = j
        /\ req'.op = "register" =>
              \A f \in RegisterForms :
                  ( /\ req' = RegisterRequest(f)
                    /\ \/ f[1] = ""
                       \/ f[2] = ""
                       \/ f[2] # f[3]
                       \/ \E i \in DOMAIN users :
                             users[i].username \in {f[1], Strip(f[1])} )
                  => users' = users
      ]_vars

\* a registration of a stored username, typed with outer blanks, was
\* refused
C20_Witness ==
    /\ req = RegisterRequest(<<" ann ", "pw", "pw">>)
    /\ resp.body = "Username already taken"
    /\ Len(users) = 1
    /\ users[1].username = "ann"

=============================================================================
